---- MODULE Spec2Model ----
(***************************************************************************)
(* DistronodePlaybook (molecule/provisioner/ansible_playbook.py): the      *)
(* builder/executor of the ``distronode-playbook`` command line.           *)
(*                                                                         *)
(* One instance is modelled.  The configuration it was constructed with    *)
(* (playbook, action, provisioner options, inventory directory, extra      *)
(* argument lists, verify mode) is chosen in Init and never changes; the   *)
(* instance fields _distronode_command, _cli and _env change through the   *)
(* four public methods bake, execute, add_cli_arg and add_env_arg.         *)
(*                                                                         *)
(* Python values are strings here.  The non-string values that matter are  *)
(* the markers PyNone, PyTrue, PyFalse, PyZero and PyEmptyList; every      *)
(* other string is a Python str.  A dict is a sequence of [k, v] records   *)
(* with distinct keys, in insertion order (dicts iterate in that order).   *)
(***************************************************************************)
EXTENDS Integers, Sequences, FiniteSets, TLC

\* Bound: the number of method calls made on the instance.
MaxCalls == 3

----------------------------------------------------------------------------
\* Python values

PyNone == "<None>"
PyTrue == "<True>"
PyFalse == "<False>"
PyZero == "<0>"
PyEmptyList == "<[]>"

\* bool(v): what ``if value:`` and ``not self._playbook`` test.
Truthy(v) == v \notin {PyNone, PyFalse, PyZero, PyEmptyList, ""}

----------------------------------------------------------------------------
\* Ordered dicts

Keys(d) == {d[i].k : i \in 1..Len(d)}

Has(d, key) == key \in Keys(d)

\* d.get(key): None when the key is absent.
Get(d, key) ==
    IF Has(d, key) THEN d[CHOOSE i \in 1..Len(d) : d[i].k = key].v ELSE PyNone

\* d[key] = value: an existing key keeps its position, a new one goes last.
Set(d, key, value) ==
    IF Has(d, key)
    THEN [i \in 1..Len(d) |-> IF d[i].k = key THEN [k |-> key, v |-> value] ELSE d[i]]
    ELSE Append(d, [k |-> key, v |-> value])

\* del d[key]
Del(d, key) == SelectSeq(d, LAMBDA e : e.k # key)

----------------------------------------------------------------------------
\* molecule.util helpers used by the class

\* util.merge_dicts(a, b): a copy of a updated with b's entries (b wins).
\* The values here are scalars, so the recursive merge of nested mappings
\* never applies.
RECURSIVE merge_dicts(_, _)
merge_dicts(a, b) ==
    IF b = <<>> THEN a
    ELSE merge_dicts(Set(a, Head(b).k, Head(b).v), Tail(b))

\* util.verbose_flag(options): the first truthy key among v, vv, vvv gives
\* the flag; that key (and a truthy "verbose") is removed from options.
\* Returns the flag list and the options as left behind.
verbose_flag(options) ==
    LET hit == {n \in 1..3 : Truthy(Get(options, SubSeq("vvv", 1, n)))}
    IN  IF hit = {} THEN [flag |-> <<>>, options |-> options]
        ELSE LET n == CHOOSE m \in hit : \A o \in hit : m <= o
                 key == SubSeq("vvv", 1, n)
                 o1 == Del(options, key)
                 o2 == IF Truthy(Get(o1, "verbose")) THEN Del(o1, "verbose") ELSE o1
             IN  [flag |-> <<"-" \o key>>, options |-> o2]

\* util.dict2args(data): "--key value" per entry; False entries are
\* skipped, True entries give the bare flag, one-letter keys a single dash.
RECURSIVE dict2args(_)
dict2args(data) ==
    IF data = <<>> THEN <<>>
    ELSE LET e == Head(data)
             flag == (IF Len(e.k) = 1 THEN "-" ELSE "--") \o e.k
             toks == IF e.v = PyFalse THEN <<>>
                     ELSE IF e.v = PyTrue THEN <<flag>>
                     ELSE <<flag, e.v>>
         IN  toks \o dict2args(Tail(data))

\* util.bool2args(flag): the verbosity flag as command tokens.
bool2args(flag) == SelectSeq(flag, LAMBDA t : Truthy(t))

----------------------------------------------------------------------------
\* Library conversions used for the failure message

\* Tokens with a character outside shlex's safe set [A-Za-z0-9_@%+=:,./-].
UnsafeTokens == {"-e a=b c", "--limit=[web]"}

\* shlex.quote(token)
shlex_quote(token) ==
    IF token = "" THEN "''"
    ELSE IF token \in UnsafeTokens THEN "'" \o token \o "'"
    ELSE token

\* rich.markup.escape on one quoted token: a "[" that opens something that
\* looks like a markup tag gets a backslash.
escape(quoted) ==
    IF quoted = "'--limit=[web]'" THEN "'--limit=\\[web]'" ELSE quoted

\* escape(shlex.join(args)): the quoted tokens joined by single spaces.  No
\* tag-like text spans two tokens here, so escaping token by token is the
\* same as escaping the joined line.
RECURSIVE escaped_join(_)
escaped_join(args) ==
    IF args = <<>> THEN ""
    ELSE IF Len(args) = 1 THEN escape(shlex_quote(args[1]))
    ELSE escape(shlex_quote(args[1])) \o " " \o escaped_join(Tail(args))

----------------------------------------------------------------------------
\* Configuration values the instance can be constructed with

\* self._config.provisioner.playbooks.converge
converge == "converge.yml"

Playbooks == {PyNone, "", converge, "verify.yml"}

Actions == {"create", "destroy", "converge"}

\* self._config.provisioner.options
ProvisionerOptions ==
    { <<>>,
      <<[k |-> "become", v |-> PyTrue], [k |-> "tags", v |-> "t1"]>>,
      <<[k |-> "become", v |-> PyFalse], [k |-> "inventory", v |-> "hosts"]>>,
      <<[k |-> "v", v |-> PyFalse], [k |-> "vvv", v |-> PyTrue],
        [k |-> "verbose", v |-> PyTrue], [k |-> "become", v |-> ""]>> }

\* self._config.provisioner.inventory_directory
InventoryDirectories == {"", "/inv"}

\* <<self._config.provisioner.distronode_args, self._config.distronode_args>>
ExtraArgs ==
    { << <<>>, <<>> >>,
      << <<"--diff">>, <<"-e a=b c", "--limit=[web]">> >> }

\* self._config.provisioner.env
ProvisionerEnv == <<[k |-> "DISTRONODE_ROLES_PATH", v |-> "roles"]>>

\* self._config.verifier.env
VerifierEnv == <<[k |-> "DISTRONODE_ROLES_PATH", v |-> "roles"]>>

\* self._config.config["verifier"]["env"]
VerifierConfigEnv == <<[k |-> "FOO", v |-> "bar"]>>

\* Inputs of the method calls
CliNames == {"become", "inventory"}
CliValues == {"x", "", PyNone, PyFalse, PyZero}
EnvNames == {"FOO"}
EnvValues == {"", "1"}
ReturnCodes == {0, 2}
Stdouts == {"", "PLAY RECAP"}

----------------------------------------------------------------------------
\* State

VARIABLES
    playbook,              \* self._playbook
    action,                \* self._config.action
    provisioner_options,   \* self._config.provisioner.options
    inventory_directory,   \* self._config.provisioner.inventory_directory
    provisioner_args,      \* self._config.provisioner.distronode_args
    config_args,           \* self._config.distronode_args
    distronode_command,    \* self._distronode_command
    cli,                   \* self._cli
    env,                   \* self._env
    merged,                \* bake's options as merge_dicts returned them
    options,               \* bake's options as handed to dict2args
    sanity_checks,         \* calls of self._config.driver.sanity_checks()
    result,                \* what util.run_command was given and returned
    outcome,               \* how the last execute() ended
    lastOp,                \* the last method called, with its arguments
    calls                  \* number of method calls so far

config_vars ==
    <<playbook, action, provisioner_options, inventory_directory,
      provisioner_args, config_args>>

vars ==
    <<playbook, action, provisioner_options, inventory_directory,
      provisioner_args, config_args, distronode_command, cli, env, merged,
      options, sanity_checks, result, outcome, lastOp, calls>>

\* self._distronode_command = None.  A baked command always holds at least
\* the executable and the playbook, so the empty sequence stands for None.
None == <<>>

NoResult == [ran |-> FALSE, args |-> <<>>, env |-> <<>>, returncode |-> 0, stdout |-> ""]

\* outcome.kind: "idle" before any execute(); "none" when execute() returned
\* None; "returned" when it returned result.stdout; "exit" when
\* util.sysexit_with_message ended the process.
Idle == [kind |-> "idle", value |-> PyNone, code |-> 0, message |-> <<>>]

\* The process is gone once sysexit_with_message has run.
Exited == outcome.kind = "exit"

Op(op, name, value) == [op |-> op, name |-> name, value |-> value]

\* DistronodePlaybook.__init__
Init ==
    /\ playbook \in Playbooks
    /\ action \in Actions
    /\ provisioner_options \in ProvisionerOptions
    /\ inventory_directory \in InventoryDirectories
    /\ \E a \in ExtraArgs : provisioner_args = a[1] /\ config_args = a[2]
    /\ distronode_command = None
    /\ cli = <<>>
    /\ \E verify \in BOOLEAN :
         env = IF verify THEN merge_dicts(VerifierEnv, VerifierConfigEnv)
               ELSE ProvisionerEnv
    /\ merged = <<>>
    /\ options = <<>>
    /\ sanity_checks = 0
    /\ result = NoResult
    /\ outcome = Idle
    /\ lastOp = Op("init", "", "")
    /\ calls = 0

----------------------------------------------------------------------------
\* The methods

\* add_cli_arg without its ``if value:`` test
add_cli_arg_unconditional(c, name, value) == Set(c, name, value)

\* add_cli_arg's effect on self._cli
add_cli_arg(c, name, value) ==
    IF Truthy(value) THEN Set(c, name, value) ELSE c

\* the merge with the provisioner options taking precedence over self._cli
merged_options_context_wins(c, popts, invdir) ==
    merge_dicts(add_cli_arg(c, "inventory", invdir), popts)

\* bake, lines 68-69: the inventory argument, then the merge
merged_options(c, popts, invdir) ==
    merge_dicts(popts, add_cli_arg(c, "inventory", invdir))

\* bake, lines 71-73: "become" is dropped for any playbook but converge
strip_become(opts, pb) ==
    IF pb # converge /\ Truthy(Get(opts, "become"))
    THEN Del(opts, "become")
    ELSE opts

\* the user arguments passed whatever the action
distronode_args_any_action(act, pargs, cargs) == pargs \o cargs

\* bake, lines 83-88: no user arguments for create and destroy
distronode_args(act, pargs, cargs) ==
    IF act \notin {"create", "destroy"} THEN pargs \o cargs ELSE <<>>

\* the playbook placed right after the executable
command_tokens_playbook_first(opts, flag, args, pb) ==
    <<"distronode-playbook", pb>> \o dict2args(opts) \o bool2args(flag)
        \o args

\* the user arguments placed before the options
command_tokens_args_first(opts, flag, args, pb) ==
    <<"distronode-playbook">> \o args \o dict2args(opts) \o bool2args(flag)
        \o <<pb>>

\* bake, lines 90-96
command_tokens(opts, flag, args, pb) ==
    <<"distronode-playbook">> \o dict2args(opts) \o bool2args(flag)
        \o args \o <<pb>>

\* bake(): the fields and locals it leaves behind, given the instance's
\* current ones.
bake(self) ==
    IF ~Truthy(playbook) THEN self
    ELSE LET c == add_cli_arg(self.cli, "inventory", inventory_directory)
             m == merged_options(self.cli, provisioner_options, inventory_directory)
             vf == verbose_flag(m)
             o == strip_become(vf.options, playbook)
             args == distronode_args(action, provisioner_args, config_args)
         IN  [cli |-> c, merged |-> m, options |-> o,
              command |-> command_tokens(o, vf.flag, args, playbook)]

Self ==
    [cli |-> cli, merged |-> merged, options |-> options,
     command |-> distronode_command]

\* the skip taken for a None playbook only
skips_only_none(pb) == pb = PyNone

\* execute, line 106
skips(pb) == ~Truthy(pb)

\* util.run_command(cmd, env, ...): the CompletedProcess of a child that
\* was given cmd and env and ended with exit code rc and standard output
\* out.
run_command(cmd, e, rc, out) ==
    [ran |-> TRUE, args |-> cmd, env |-> e, returncode |-> rc, stdout |-> out]

\* util.sysexit_with_message(msg, code): the process ends with that code
\* after printing the message; the caller gets nothing back.
sysexit_with_message(msg, code) ==
    [kind |-> "exit", value |-> PyNone, code |-> code, message |-> msg]

\* the failure message of line 125, as its literal and formatted parts
failure_message(res) ==
    <<"Distronode return code was ", ToString(res.returncode),
      ", command was: [dim]", escaped_join(res.args), "[/dim]">>

\* the process ended with exit code 1 whatever the child's code
finish_exit_one(res) ==
    IF res.returncode # 0
    THEN sysexit_with_message(failure_message(res), 1)
    ELSE [kind |-> "returned", value |-> res.stdout, code |-> 0,
          message |-> <<>>]

\* execute, lines 121-130: how the call ends for a CompletedProcess
finish(res) ==
    IF res.returncode # 0
    THEN sysexit_with_message(failure_message(res), res.returncode)
    ELSE [kind |-> "returned", value |-> res.stdout, code |-> 0,
          message |-> <<>>]

Bake ==
    /\ ~Exited
    /\ calls < MaxCalls
    /\ LET b == bake(Self)
       IN  /\ cli' = b.cli
           /\ merged' = b.merged
           /\ options' = b.options
           /\ distronode_command' = b.command
    /\ lastOp' = Op("bake", "", "")
    /\ calls' = calls + 1
    /\ UNCHANGED <<config_vars, env, sanity_checks, result, outcome>>

\* execute(), for a child that ends with exit code rc and standard output
\* out (when a child is run at all).
Execute(rc, out) ==
    /\ ~Exited
    /\ calls < MaxCalls
    /\ LET b == IF distronode_command = None THEN bake(Self) ELSE Self
       IN  /\ cli' = b.cli
           /\ merged' = b.merged
           /\ options' = b.options
           /\ distronode_command' = b.command
           /\ IF skips(playbook)
              THEN /\ outcome' = [kind |-> "none", value |-> PyNone, code |-> 0,
                                  message |-> <<>>]
                   /\ UNCHANGED <<sanity_checks, result>>
              ELSE LET res == run_command(b.command, env, rc, out)
                   IN  /\ sanity_checks' = sanity_checks + 1
                       /\ result' = res
                       /\ outcome' = finish(res)
    /\ lastOp' = Op("execute", "", "")
    /\ calls' = calls + 1
    /\ UNCHANGED <<config_vars, env>>

AddCliArg(name, value) ==
    /\ ~Exited
    /\ calls < MaxCalls
    /\ cli' = add_cli_arg(cli, name, value)
    /\ lastOp' = Op("add_cli_arg", name, value)
    /\ calls' = calls + 1
    /\ UNCHANGED <<config_vars, distronode_command, env, merged, options,
                   sanity_checks, result, outcome>>

AddEnvArg(name, value) ==
    /\ ~Exited
    /\ calls < MaxCalls
    /\ env' = Set(env, name, value)
    /\ lastOp' = Op("add_env_arg", name, value)
    /\ calls' = calls + 1
    /\ UNCHANGED <<config_vars, distronode_command, cli, merged, options,
                   sanity_checks, result, outcome>>

Next ==
    \/ Bake
    \/ \E rc \in ReturnCodes, out \in Stdouts : Execute(rc, out)
    \/ \E name \in CliNames, value \in CliValues : AddCliArg(name, value)
    \/ \E name \in EnvNames, value \in EnvValues : AddEnvArg(name, value)

Spec == Init /\ [][Next]_vars

----------------------------------------------------------------------------
\* Properties

Baked == distronode_command # None

Tokens(seq) == {seq[i] : i \in 1..Len(seq)}

\* The verbosity tokens of the command bake() built last.
VerbosityTokens == bool2args(verbose_flag(merged).flag)

\* A step in which bake() ran to build the command: a call of bake(), or
\* an execute() that found no command baked.
BakeRan ==
    /\ Truthy(playbook)
    /\ \/ lastOp'.op = "bake"
       \/ lastOp'.op = "execute" /\ distronode_command = None

\* C1: whenever a command has been baked, its last token is the playbook
\* path, whatever the options, overrides, extra arguments and action, and
\* after any sequence of calls.
C1_PlaybookLast ==
    Baked => distronode_command[Len(distronode_command)] = playbook

C1_Witness ==
    /\ Baked
    /\ lastOp.op = "execute"
    /\ action = "converge"
    /\ config_args # <<>>
    /\ Has(cli, "become")
    /\ distronode_command[Len(distronode_command)] = "converge.yml"

\* C2: for the actions create and destroy the baked command holds no token
\* of the two extra argument lists; it is exactly the executable, the
\* option tokens, the verbosity tokens and the playbook.
C2_NoExtraArgs ==
    (Baked /\ action \in {"create", "destroy"}) =>
        /\ distronode_command =
              <<"distronode-playbook">> \o dict2args(options)
                  \o VerbosityTokens \o <<playbook>>
        /\ Tokens(distronode_command)
              \cap Tokens(provisioner_args \o config_args) = {}

C2_Witness ==
    /\ Baked
    /\ action = "destroy"
    /\ provisioner_args # <<>>
    /\ config_args # <<>>
    /\ options # <<>>

\* C3: when the playbook is not the converge playbook, the options bake()
\* flattens never hold the key "become", whatever its value.
C3_NoBecome ==
    (Baked /\ playbook # converge) => ~Has(options, "become")

\* C4 as claimed: a falsy value leaves self._cli unchanged, a truthy one
\* sets the name, and the options a following bake() merges carry every
\* name of self._cli with the value self._cli has for it.
C4_OverrideAnyName ==
    [][ /\ lastOp'.op = "add_cli_arg" =>
             IF Truthy(lastOp'.value)
             THEN /\ Get(cli', lastOp'.name) = lastOp'.value
                  /\ \A key \in Keys(cli) \ {lastOp'.name} :
                        Get(cli', key) = Get(cli, key)
             ELSE cli' = cli
        /\ BakeRan =>
             \A key \in Keys(cli) : Get(merged', key) = Get(cli, key)
      ]_vars

\* C4: a falsy value leaves self._cli unchanged and a truthy one sets the
\* name; the options a following bake() merges carry every name of
\* self._cli with the value self._cli has for it, except "inventory" when
\* the context's inventory directory is non-empty.
C4_Override ==
    [][ /\ lastOp'.op = "add_cli_arg" =>
             IF Truthy(lastOp'.value)
             THEN /\ Get(cli', lastOp'.name) = lastOp'.value
                  /\ \A key \in Keys(cli) \ {lastOp'.name} :
                        Get(cli', key) = Get(cli, key)
             ELSE cli' = cli
        /\ BakeRan =>
             \A key \in Keys(cli) :
                \/ key = "inventory" /\ Truthy(inventory_directory)
                \/ Get(merged', key) = Get(cli, key)
      ]_vars

C4_Witness ==
    /\ lastOp.op = "bake"
    /\ Baked
    /\ Get(provisioner_options, "become") = PyTrue
    /\ Get(cli, "become") = "x"
    /\ Get(merged, "become") = "x"

\* C5: with an empty or None playbook every execute() returns None, the
\* driver sanity check and the child process are never run, and the
\* command stays unset, whatever calls were made.
C5_NoPlaybookSkips ==
    ~Truthy(playbook) =>
        /\ distronode_command = None
        /\ sanity_checks = 0
        /\ ~result.ran
        /\ outcome.kind \in {"idle", "none"}
        /\ lastOp.op = "execute" => outcome.kind = "none" /\ outcome.value = PyNone

C5_Witness ==
    /\ ~Truthy(playbook)
    /\ lastOp.op = "execute"
    /\ outcome.kind = "none"
    /\ calls = MaxCalls
    /\ cli # <<>>

\* C6: an execute() with a playbook returns the child's stdout unchanged
\* exactly when the child's exit code is 0; otherwise the process ends with
\* that exit code and a message holding the escaped command line of the
\* command that was run, and nothing is returned.
C6_ExitOrStdout ==
    (lastOp.op = "execute" /\ Truthy(playbook)) =>
        /\ result.ran
        /\ result.args = distronode_command
        /\ outcome.kind = "returned" <=> result.returncode = 0
        /\ result.returncode = 0 => outcome.value = result.stdout
        /\ result.returncode # 0 =>
              /\ outcome.kind = "exit"
              /\ outcome.code = result.returncode
              /\ outcome.value = PyNone
              /\ escaped_join(distronode_command) \in Tokens(outcome.message)

C6_Witness ==
    /\ lastOp.op = "execute"
    /\ outcome.kind = "exit"
    /\ outcome.code = 2
    /\ "-e a=b c" \in Tokens(distronode_command)

\* C7: once baked, the command never changes and never returns to unbaked.
C7_Immutable ==
    [][Baked => distronode_command' = distronode_command]_vars

\* C8: once the command is baked, no call changes the environment that
\* execute() passes to the child.
C8_EnvFrozen ==
    [][Baked => env' = env]_vars

\* C9 as claimed: the baked command is the executable, the option tokens,
\* the verbosity tokens, the provisioner's extra arguments, the caller's
\* extra arguments and the playbook, in this order.
C9_OrderAnyAction ==
    Baked =>
        distronode_command =
            <<"distronode-playbook">> \o dict2args(options) \o VerbosityTokens
                \o provisioner_args \o config_args \o <<playbook>>

\* C9: the baked command is the executable, the option tokens, the
\* verbosity tokens, then (unless the action is create or destroy) the
\* provisioner's and the caller's extra arguments, and the playbook.
C9_Order ==
    Baked =>
        distronode_command =
            <<"distronode-playbook">> \o dict2args(options) \o VerbosityTokens
                \o (IF action \in {"create", "destroy"} THEN <<>>
                    ELSE provisioner_args \o config_args)
                \o <<playbook>>

C9_Witness ==
    /\ Baked
    /\ action = "converge"
    /\ provisioner_args # <<>>
    /\ config_args # <<>>
    /\ VerbosityTokens # <<>>
    /\ Len(dict2args(options)) >= 3

\* C10 as claimed: every bake leaves merged options whose "inventory" is
\* the context's inventory directory, for every directory value.
C10_InventoryAnyDirectory ==
    Baked =>
        /\ Has(merged, "inventory")
        /\ Get(merged, "inventory") = inventory_directory

\* C10: every bake with a non-empty inventory directory leaves merged
\* options whose "inventory" is that directory, whatever "inventory" the
\* provisioner options or an earlier add_cli_arg gave.
C10_Inventory ==
    (Baked /\ Truthy(inventory_directory)) =>
        /\ Has(merged, "inventory")
        /\ Get(merged, "inventory") = inventory_directory

C10_Witness ==
    /\ Baked
    /\ lastOp.op = "bake"
    /\ Truthy(inventory_directory)
    /\ Get(provisioner_options, "inventory") = "hosts"
    /\ Len(cli) = 2
    /\ cli[1].k = "inventory"
    /\ Get(merged, "inventory") = "/inv"
====
